---- MODULE Spec2Model ----
(***************************************************************************)
(* Model of the goods CMS backend (src/index.js, second server, lines      *)
(* 257-610): the JSON file DB_GOODS, the validator makeGoodsFromData, the  *)
(* query functions and the createServer request handler.                   *)
(*                                                                         *)
(* JavaScript values are records [t, n, s]: t is the type tag, n the       *)
(* number (for t = "num"), s the string (for t = "str") as a sequence of   *)
(* tokens.  A token is one character, or an atomic chunk of a longer       *)
(* string ("data:image", "base64,", "notimage", an id).                    *)
(***************************************************************************)
EXTENDS Integers, Sequences, FiniteSets, TLC

VARIABLES
    goods,  \* parsed content of the file DB_GOODS: a sequence of items
    files,  \* the image files written under ./image (their paths)
    req,    \* the request the handler ran last
    res,    \* the response it ended
    content \* what the file DB_GOODS holds: "json" (the text of goods) or "empty"

vars == <<goods, files, req, res, content>>

----------------------------------------------------------------------------
(* JavaScript values *)

Undef == [t |-> "undef", n |-> 0, s |-> <<>>]
Null == [t |-> "null", n |-> 0, s |-> <<>>]
Num(k) == [t |-> "num", n |-> k, s |-> <<>>]
Str(q) == [t |-> "str", n |-> 0, s |-> q]

NaN == [nan |-> TRUE, v |-> 0]
Fin(k) == [nan |-> FALSE, v |-> k]

Digits == <<"0", "1", "2", "3", "4", "5", "6", "7", "8", "9">>

IsDigit(c) == \E i \in 1..Len(Digits) : Digits[i] = c

DigitVal(c) == (CHOOSE i \in 1..Len(Digits) : Digits[i] = c) - 1

IsSpace(c) == c = " "

\* a value's truthiness (the operands of && and ||, and of !)
Truthy(v) ==
    CASE v.t = "undef" -> FALSE
      [] v.t = "null" -> FALSE
      [] v.t = "num" -> v.n # 0
      [] OTHER -> v.s # <<>>

RECURSIVE NatToStr(_)
NatToStr(k) ==
    IF k < 10 THEN <<Digits[k + 1]>>
    ELSE NatToStr(k \div 10) \o <<Digits[(k % 10) + 1]>>

\* String(v)
ToStr(v) ==
    CASE v.t = "undef" -> <<"u", "n", "d", "e", "f", "i", "n", "e", "d">>
      [] v.t = "null" -> <<"n", "u", "l", "l">>
      [] v.t = "num" -> IF v.n < 0 THEN <<"-">> \o NatToStr(-v.n) ELSE NatToStr(v.n)
      [] OTHER -> v.s

RECURSIVE TrimStart(_)
TrimStart(q) ==
    IF q # <<>> /\ IsSpace(Head(q)) THEN TrimStart(Tail(q)) ELSE q

RECURSIVE TrimEnd(_)
TrimEnd(q) ==
    IF q # <<>> /\ IsSpace(q[Len(q)]) THEN TrimEnd(SubSeq(q, 1, Len(q) - 1)) ELSE q

\* String.prototype.trim
Trim(q) == TrimEnd(TrimStart(q))

\* the longest prefix of q made of digits
RECURSIVE DigitPrefix(_)
DigitPrefix(q) ==
    IF q # <<>> /\ IsDigit(Head(q)) THEN <<Head(q)>> \o DigitPrefix(Tail(q)) ELSE <<>>

RECURSIVE DigitsVal(_)
DigitsVal(q) ==
    IF q = <<>> THEN 0 ELSE DigitsVal(SubSeq(q, 1, Len(q) - 1)) * 10 + DigitVal(q[Len(q)])

\* parseFloat(v): leading white space is skipped, then the longest numeric
\* prefix is read (the modelled alphabet has no sign, point or exponent)
ParseFloat(v) ==
    IF v.t = "num" THEN Fin(v.n)
    ELSE LET d == DigitPrefix(TrimStart(ToStr(v)))
         IN IF d = <<>> THEN NaN ELSE Fin(DigitsVal(d))

\* Number(v), the conversion isFinite and the operator * apply
ToNumber(v) ==
    CASE v.t = "undef" -> NaN
      [] v.t = "null" -> Fin(0)
      [] v.t = "num" -> Fin(v.n)
      [] OTHER ->
            LET q == Trim(v.s)
            IN IF DigitPrefix(q) = q THEN Fin(DigitsVal(q)) ELSE NaN

\* the global isFinite(v)
IsFinite(v) == ~ToNumber(v).nan

\* Times with the product taken for a sum
TimesAsPlus(a, b) ==
    IF ToNumber(a).nan \/ ToNumber(b).nan THEN NaN
    ELSE Fin(ToNumber(a).v + ToNumber(b).v)

\* a * b
Times(a, b) ==
    IF ToNumber(a).nan \/ ToNumber(b).nan THEN NaN
    ELSE Fin(ToNumber(a).v * ToNumber(b).v)

StartsWith(q, p) == Len(q) >= Len(p) /\ SubSeq(q, 1, Len(p)) = p

\* q.split(sep), sep one token
RECURSIVE Split(_, _)
Split(q, sep) ==
    IF \A i \in 1..Len(q) : q[i] # sep THEN <<q>>
    ELSE LET k == CHOOSE i \in 1..Len(q) : q[i] = sep /\ \A j \in 1..(i - 1) : q[j] # sep
         IN <<SubSeq(q, 1, k - 1)>> \o Split(SubSeq(q, k + 1, Len(q)), sep)

----------------------------------------------------------------------------
(* Items and request bodies *)

DataFields == <<"title", "description", "price", "discount", "count", "units", "image", "category">>

Fields == {"id"} \cup {DataFields[i] : i \in 1..Len(DataFields)}

DataFieldSet == Fields \ {"id"}

\* a body with no field (JSON {})
EmptyBody == [f \in Fields |-> Undef]

\* Spread with the operands in the wrong order: a's fields win
SpreadReversed(a, b) == [f \in Fields |-> IF a[f] = Undef THEN b[f] ELSE a[f]]

\* {...a, ...b}: fields b does not have keep a's value
Spread(a, b) == [f \in Fields |-> IF b[f] = Undef THEN a[f] ELSE b[f]]

\* an item no lookup found (Array.prototype.find returned undefined)
NoItem == [f \in Fields |-> Undef]

----------------------------------------------------------------------------
(* Images *)

DataImage == <<"data:image">>

ImageDir == <<"image", "/">>

NotImage == Str(ImageDir \o <<"notimage", ".", "jpg">>)

\* /^data:image/.test(data)
isImageBase64(data) == StartsWith(ToStr(data), DataImage)

\* /^image\//.test(data)
isImageURL(data) == StartsWith(ToStr(data), ImageDir)

\* the extension dataURLtoFile derives from the MIME subtype
ImageExt(base64) ==
    LET parts == Split(Split(base64, ";")[1], "/")
        format == IF Len(parts) >= 2 THEN parts[2] ELSE ToStr(Undef)
    IN IF format = <<"svg+xml">> THEN <<"svg">>
       ELSE IF format = <<"jpeg">> THEN <<"jpg">>
       ELSE format

\* dataURLtoFile(base64, id): the path it returns; the file ./<path> is written
dataURLtoFile(base64, id) == ImageDir \o ToStr(id) \o <<".">> \o ImageExt(base64)

----------------------------------------------------------------------------
(* makeGoodsFromData *)

asString(str) ==
    IF Truthy(str) /\ Trim(ToStr(str)) # <<>> THEN Str(Trim(ToStr(str))) ELSE Str(<<>>)

isNumber(num) == ~ParseFloat(num).nan /\ IsFinite(num)

\* data.discount || 0
OrZero(v) == IF Truthy(v) THEN v ELSE Num(0)

\* RawGoods that also copies data.id
RawGoodsWithId(data) ==
    [f \in Fields |->
        CASE f \in {"title", "description", "units"} -> asString(data[f])
          [] f = "discount" -> OrZero(data[f])
          [] OTHER -> data[f]]

\* the object literal of lines 346-355
RawGoods(data) ==
    [f \in Fields \ {"id"} |->
        CASE f \in {"title", "description", "units"} -> asString(data[f])
          [] f = "discount" -> OrZero(data[f])
          [] OTHER -> data[f]]

\* the message pushed with each field (the source's texts are Russian)
ErrorMessage(f) ==
    CASE f = "title" -> "title of the goods is not given"
      [] f = "description" -> "description is not given"
      [] f = "price" -> "price is not given"
      [] f = "count" -> "count is not given"
      [] f = "units" -> "units are not given"
      [] OTHER -> "category of the goods is not given"

ErrorEntry(f) == [field |-> f, message |-> ErrorMessage(f)]

PushIf(cond, f) == IF cond THEN <<ErrorEntry(f)>> ELSE <<>>

\* ValidationErrors that stops at the first failing check
ValidationErrorsFirstOnly(g) ==
    IF ~Truthy(g["title"]) THEN <<ErrorEntry("title")>>
    ELSE IF ~Truthy(g["description"]) THEN <<ErrorEntry("description")>>
    ELSE IF ~isNumber(g["price"]) THEN <<ErrorEntry("price")>>
    ELSE IF ~isNumber(g["count"]) THEN <<ErrorEntry("count")>>
    ELSE IF ~Truthy(g["units"]) THEN <<ErrorEntry("units")>>
    ELSE PushIf(~Truthy(g["category"]), "category")

\* the errors array after the six checks of lines 357-368
ValidationErrors(g) ==
    PushIf(~Truthy(g["title"]), "title")
    \o PushIf(~Truthy(g["description"]), "description")
    \o PushIf(~isNumber(g["price"]), "price")
    \o PushIf(~isNumber(g["count"]), "count")
    \o PushIf(~Truthy(g["units"]), "units")
    \o PushIf(~Truthy(g["category"]), "category")

\* goods.image after lines 372-377
\* lines 372-377 keeping every image that is not a data URL as it is
StoredImageKept(image, id) ==
    IF isImageBase64(image) THEN Str(dataURLtoFile(ToStr(image), id))
    ELSE IF ~Truthy(image) THEN NotImage
    ELSE image

StoredImage(image, id) ==
    IF isImageBase64(image) THEN Str(dataURLtoFile(ToStr(image), id))
    ELSE IF ~isImageURL(image) THEN NotImage
    ELSE image

\* makeGoodsFromData that writes the image before it checks the fields
makeGoodsFromDataImageFirst(data, id) ==
    LET g == RawGoods(data)
        errors == ValidationErrors(g)
    IN [errors |-> errors,
        goods |-> IF errors # <<>> THEN g ELSE [g EXCEPT !["image"] = StoredImage(g["image"], id)],
        files |-> IF isImageBase64(g["image"])
                  THEN {dataURLtoFile(ToStr(g["image"]), id)}
                  ELSE {}]

\* makeGoodsFromData(data, id): errors is what the ApiError(422) carries when
\* it throws; otherwise goods is the object returned and files the image
\* files dataURLtoFile wrote
makeGoodsFromData(data, id) ==
    LET g == RawGoods(data)
        errors == ValidationErrors(g)
    IN IF errors # <<>>
       THEN [errors |-> errors, goods |-> g, files |-> {}]
       ELSE [errors |-> <<>>,
             goods |-> [g EXCEPT !["image"] = StoredImage(g["image"], id)],
             files |-> IF isImageBase64(g["image"])
                       THEN {dataURLtoFile(ToStr(g["image"]), id)}
                       ELSE {}]

----------------------------------------------------------------------------
(* Query functions *)

DefaultSize == 10

Max(a, b) == IF a >= b THEN a ELSE b

Min(a, b) == IF a <= b THEN a ELSE b

\* Math.ceil(a / b) for a >= 0, b > 0
CeilDiv(a, b) == (a + b - 1) \div b

\* ToIntegerOrInfinity of a slice bound: NaN counts as 0
SliceBound(x, len) ==
    LET k == IF x.nan THEN 0 ELSE x.v
    IN IF k < 0 THEN Max(len + k, 0) ELSE Min(k, len)

\* data.slice(start, end)
Slice(data, start, end) ==
    LET from == SliceBound(start, Len(data))
        to == SliceBound(end, Len(data))
    IN IF from >= to THEN <<>> ELSE SubSeq(data, from + 1, to)

\* the number the digits d read as, negated after a minus sign
SignedVal(d, minus) ==
    IF d = <<>> THEN NaN
    ELSE IF minus THEN Fin(-DigitsVal(d))
    ELSE Fin(DigitsVal(d))

\* the integer at the start of q: an optional sign, then digits
SignedInt(q) ==
    IF q # <<>> /\ Head(q) \in {"-", "+"}
    THEN SignedVal(DigitPrefix(Tail(q)), Head(q) = "-")
    ELSE SignedVal(DigitPrefix(q), FALSE)

\* parseInt(v): leading white space is skipped, then an optional sign and the
\* longest prefix of digits are read
ParseInt(v) == SignedInt(TrimStart(ToStr(v)))

\* a * b and a - b on numbers that may be NaN
NumTimes(a, b) == IF a.nan \/ b.nan THEN NaN ELSE Fin(a.v * b.v)

NumMinus(a, b) == IF a.nan \/ b.nan THEN NaN ELSE Fin(a.v - b.v)

\* pagination that rounds the number of pages down
paginationFloor(data, page, cnt) ==
    LET parsed == ParseInt(cnt)
        count == IF parsed.nan \/ parsed.v = 0 THEN Fin(DefaultSize) ELSE parsed
        end == NumTimes(count, page)
        start == IF page = Fin(1) THEN Fin(0) ELSE NumMinus(end, count)
    IN [goods |-> Slice(data, start, end),
        page |-> page,
        pages |-> Len(data) \div count.v,
        totalCount |-> Len(data)]

\* pagination(data, page, cnt): page is a number (maybe NaN), cnt a value
pagination(data, page, cnt) ==
    LET parsed == ParseInt(cnt)
        count == IF parsed.nan \/ parsed.v = 0 THEN Fin(DefaultSize) ELSE parsed
        end == NumTimes(count, page)
        start == IF page = Fin(1) THEN Fin(0) ELSE NumMinus(end, count)
    IN [goods |-> Slice(data, start, end),
        page |-> page,
        pages |-> CeilDiv(Len(data), count.v),
        totalCount |-> Len(data)]

LowerCase(c) ==
    CASE c = "A" -> "a" [] c = "B" -> "b" [] c = "C" -> "c" [] c = "D" -> "d"
      [] c = "T" -> "t" [] OTHER -> c

\* String.prototype.toLowerCase
toLowerCase(q) == [i \in 1..Len(q) |-> LowerCase(q[i])]

\* String.prototype.includes
Includes(q, p) == \E i \in 0..(Len(q) - Len(p)) : SubSeq(q, i + 1, i + Len(p)) = p

\* decodeURI / decodeURIComponent: an escape sequence becomes its character
Unescape(c) == IF c = "%20" THEN " " ELSE c

decodeURI(q) == [i \in 1..Len(q) |-> Unescape(q[i])]

NoParams == [page |-> Undef, size |-> Undef, search |-> Undef]

\* getGoodsList("all"): the parsed content of the file
AllGoods(db) == db

\* getGoodsList that pages the result of a search by the page parameter
getGoodsListSearchPaged(db, params) ==
    IF params.size = Str(<<"all">>) THEN [kind |-> "list", list |-> db, page |-> NaN, pages |-> 0, totalCount |-> 0]
    ELSE LET size == IF Truthy(params.size) THEN params.size ELSE Num(DefaultSize)
             search == toLowerCase(Trim(ToStr(params.search)))
             Match(item) == \E f \in {"title", "description"} :
                                Includes(toLowerCase(ToStr(item[f])), search)
             data == IF Truthy(params.search) THEN SelectSeq(db, Match) ELSE db
             page == IF Truthy(params.page) THEN ParseInt(params.page) ELSE Fin(1)
             r == pagination(data, page, size)
         IN [kind |-> "page", list |-> r.goods, page |-> r.page, pages |-> r.pages,
             totalCount |-> r.totalCount]

\* getGoodsList with the page test before the search test
getGoodsListPageFirst(db, params) ==
    IF params.size = Str(<<"all">>) THEN [kind |-> "list", list |-> db, page |-> NaN, pages |-> 0, totalCount |-> 0]
    ELSE LET size == IF Truthy(params.size) THEN params.size ELSE Num(DefaultSize)
             search == toLowerCase(Trim(ToStr(params.search)))
             Match(item) == \E f \in {"title", "description"} :
                                Includes(toLowerCase(ToStr(item[f])), search)
             data == IF ~Truthy(params.page) /\ Truthy(params.search) THEN SelectSeq(db, Match) ELSE db
             page == IF Truthy(params.page) THEN ParseInt(params.page) ELSE Fin(1)
             r == pagination(data, page, size)
         IN [kind |-> "page", list |-> r.goods, page |-> r.page, pages |-> r.pages,
             totalCount |-> r.totalCount]

\* getGoodsList(params) for an object params: kind "list" is the bare array,
\* kind "page" the object pagination returns
getGoodsList(db, params) ==
    IF params.size = Str(<<"all">>) THEN [kind |-> "list", list |-> db, page |-> NaN, pages |-> 0, totalCount |-> 0]
    ELSE LET size == IF Truthy(params.size) THEN params.size ELSE Num(DefaultSize)
             search == toLowerCase(Trim(ToStr(params.search)))
             Match(item) == \E f \in {"title", "description"} :
                                Includes(toLowerCase(ToStr(item[f])), search)
             data == IF Truthy(params.search) THEN SelectSeq(db, Match) ELSE db
             page == IF ~Truthy(params.search) /\ Truthy(params.page)
                     THEN ParseInt(params.page) ELSE Fin(1)
             r == pagination(data, page, size)
         IN [kind |-> "page", list |-> r.goods, page |-> r.page, pages |-> r.pages,
             totalCount |-> r.totalCount]

\* findIndex(({ id }) => id === itemId): the first position of the id, 0 for -1
FindIndex(db, itemId) ==
    IF \E i \in 1..Len(db) : db[i]["id"] = itemId
    THEN CHOOSE i \in 1..Len(db) :
            db[i]["id"] = itemId /\ \A j \in 1..(i - 1) : db[j]["id"] # itemId
    ELSE 0

\* getDiscountList
getDiscountList(db) == LET Keep(item) == Truthy(item["discount"]) IN SelectSeq(db, Keep)

\* getGoodsCategorytList(category)
getGoodsCategorytList(db, category) ==
    IF category = <<>> THEN AllGoods(db)
    ELSE LET Keep(item) == decodeURI(ToStr(item["category"])) = decodeURI(category) IN SelectSeq(db, Keep)

RECURSIVE SumPrices(_, _)
\* goods.reduce((acc, item) => acc + item.count * item.price, acc0)
SumPrices(data, acc) ==
    IF data = <<>> THEN acc
    ELSE LET p == Times(Head(data)["count"], Head(data)["price"])
         IN SumPrices(Tail(data), IF acc.nan \/ p.nan THEN NaN ELSE Fin(acc.v + p.v))

\* getTotalPrice
getTotalPrice(db) == SumPrices(AllGoods(db), Fin(0))

RECURSIVE Distinct(_, _)
\* [...new Set(list)]: the values in the order of their first occurrence
Distinct(list, seen) ==
    IF list = <<>> THEN <<>>
    ELSE IF Head(list) \in seen THEN Distinct(Tail(list), seen)
    ELSE <<Head(list)>> \o Distinct(Tail(list), seen \cup {Head(list)})

\* getCategoryList
getCategoryList(db) == Distinct([i \in 1..Len(db) |-> db[i]["category"]], {})

----------------------------------------------------------------------------
(* Responses and the functions that change the file *)

URI_GOODS == <<"/api/goods">>

URI_CATEGORIES == <<"/api/categories">>

URI_TOTAL_PRICE == <<"/api/total">>

\* a response before anything is set: statusCode 200, no body
NoRes ==
    [status |-> 200, kind |-> "none", item |-> NoItem, list |-> <<>>, errors |-> <<>>,
     message |-> "", num |-> NaN, page |-> NaN, pages |-> 0, totalCount |-> 0,
     location |-> <<>>]

\* what a function of the handler leaves: the file, the image files, the response
Outcome(db, fs, r) == [goods |-> db, files |-> fs, res |-> r]

\* throw new ApiError(statusCode, { message }) caught at lines 569-572
ApiErrorMessage(db, fs, statusCode, message) ==
    Outcome(db, fs, [NoRes EXCEPT !.status = statusCode, !.kind = "message", !.message = message])

\* throw new ApiError(422, { errors }) caught at lines 569-572
ApiErrorErrors(db, fs, errors) ==
    Outcome(db, fs, [NoRes EXCEPT !.status = 422, !.kind = "errors", !.errors = errors])

ItemBody(item) == [NoRes EXCEPT !.kind = "item", !.item = item]

ListBody(list) == [NoRes EXCEPT !.kind = "list", !.list = list]

\* Object.assign(target, source)
Assign(target, source) ==
    [f \in Fields |-> IF f \in DOMAIN source THEN source[f] ELSE target[f]]

\* newItem.id = id
WithId(made, id) == [f \in Fields |-> IF f = "id" THEN id ELSE made[f]]

\* createGoods(data) with id the string built from Math.random() and Date.now();
\* the handler then sets status 201 and the Location header (lines 554-557)
createGoods(db, fs, data, id) ==
    LET made == makeGoodsFromData(data, id)
        newItem == WithId(made.goods, id)
    IN IF made.errors # <<>> THEN ApiErrorErrors(db, fs \cup made.files, made.errors)
       ELSE Outcome(Append(AllGoods(db), newItem), fs \cup made.files,
                    [ItemBody(newItem) EXCEPT !.status = 201,
                                              !.location = URI_GOODS \o <<"/">> \o ToStr(newItem["id"])])

\* getGoods(itemId)
getGoods(db, fs, itemId) ==
    LET k == FindIndex(AllGoods(db), itemId)
    IN IF k = 0 THEN ApiErrorMessage(db, fs, 404, "Goods Not Found")
       ELSE Outcome(db, fs, ItemBody(db[k]))

\* updateGoods that validates the payload before it looks the item up
updateGoodsValidateFirst(db, fs, itemId, data) ==
    LET all == AllGoods(db)
        itemIndex == FindIndex(all, itemId)
        made == makeGoodsFromData(
                    Spread(IF itemIndex = 0 THEN EmptyBody ELSE all[itemIndex], data), itemId)
        updated == Assign(all[itemIndex], made.goods)
    IN IF made.errors # <<>> THEN ApiErrorErrors(db, fs \cup made.files, made.errors)
       ELSE IF itemIndex = 0 THEN ApiErrorMessage(db, fs, 404, "Goods Not Found")
       ELSE Outcome([all EXCEPT ![itemIndex] = updated], fs \cup made.files, ItemBody(updated))

\* updateGoods(itemId, data)
updateGoods(db, fs, itemId, data) ==
    LET all == AllGoods(db)
        itemIndex == FindIndex(all, itemId)
        made == makeGoodsFromData(Spread(all[itemIndex], data), itemId)
        updated == Assign(all[itemIndex], made.goods)
    IN IF itemIndex = 0 THEN ApiErrorMessage(db, fs, 404, "Goods Not Found")
       ELSE IF made.errors # <<>> THEN ApiErrorErrors(db, fs \cup made.files, made.errors)
       ELSE Outcome([all EXCEPT ![itemIndex] = updated], fs \cup made.files, ItemBody(updated))

\* deleteGoods(itemId)
deleteGoods(db, fs, itemId) ==
    LET all == AllGoods(db)
        itemIndex == FindIndex(all, itemId)
    IN IF itemIndex = 0 THEN ApiErrorMessage(db, fs, 404, "Goods Not Found")
       ELSE Outcome(SubSeq(all, 1, itemIndex - 1) \o SubSeq(all, itemIndex + 1, Len(all)), fs,
                    [NoRes EXCEPT !.kind = "object"])

----------------------------------------------------------------------------
(* The request handler of createServer (lines 478-579) *)

\* a request: the method, the url as tokens, the body (valid: its bytes are
\* JSON text, of the object body), and the id Math.random() and Date.now()
\* would give createGoods
Request(method, url, body, rnd) ==
    [method |-> method, url |-> url, body |-> body, rnd |-> rnd, valid |-> TRUE]

\* the same request with a body that is not JSON text
Malformed(r) == [r EXCEPT !.valid = FALSE]

\* drainJson(req): JSON.parse runs in the "end" listener; threw tells that it
\* threw there, outside the promise and outside the handler's try
drainJson(r) == [threw |-> ~r.valid, data |-> r.body]

\* an exception no one catches: res.end is never called and the process ends
Uncaught(db, fs) == Outcome(db, fs, [NoRes EXCEPT !.kind = "uncaught"])

\* req.url.substring(1, 6) === "image"
IsImagePath(url) == Len(url) >= 2 /\ url[1] = "/" /\ url[2] = "image"

\* lines 479-486: the file ./<url> is read and sent, nothing when it is not there
ServeImage(db, fs, r) ==
    Outcome(db, fs, [NoRes EXCEPT !.kind = IF Tail(r.url) \in fs THEN "image" ELSE "none"])

\* str.substring(1): the first character is dropped
DropSlash(token) ==
    CASE token = "/api/categories" -> "api/categories"
      [] token = "/api/total" -> "api/total"
      [] OTHER -> token

Substring1(q) ==
    IF q = <<>> THEN <<>>
    ELSE IF Head(q) = "/" THEN Tail(q)
    ELSE <<DropSlash(Head(q))>> \o Tail(q)

\* data of lines 513-524: the uri and the query string (<<>> when there is none)
UriAndQuery(url) ==
    LET parts == Split(Tail(url), "?")
    IN IF StartsWith(url, URI_TOTAL_PRICE) THEN [uri |-> URI_TOTAL_PRICE, query |-> <<>>]
       ELSE IF StartsWith(url, URI_GOODS)
            THEN [uri |-> parts[1], query |-> IF Len(parts) >= 2 THEN parts[2] ELSE <<>>]
       ELSE [uri |-> URI_CATEGORIES, query |-> <<>>]

RECURSIVE ParamOf(_, _, _)
\* queryParams[key] after the loop of lines 530-533 over the pieces, from acc
ParamOf(pieces, key, acc) ==
    IF pieces = <<>> THEN acc
    ELSE LET kv == Split(Head(pieces), "=")
             value == IF Len(kv) >= 2 /\ kv[2] # <<>> THEN Str(decodeURI(kv[2])) ELSE Str(<<>>)
         IN ParamOf(Tail(pieces), key, IF kv[1] = <<key>> THEN value ELSE acc)

QueryParams(query) ==
    IF query = <<>> THEN NoParams
    ELSE [k \in {"page", "size", "search"} |-> ParamOf(Split(query, "&"), k, Undef)]

\* the async function of lines 537-567 and the catch of lines 569-577
Dispatch(db, fs, r) ==
    LET parsed == UriAndQuery(r.url)
        uri == parsed.uri
        queryParams == QueryParams(parsed.query)
        itemId == Str(Substring1(uri))
        list == getGoodsList(db, queryParams)
    IN IF uri = URI_CATEGORIES /\ r.method = "GET"
            THEN Outcome(db, fs, ListBody(getCategoryList(db)))
       ELSE IF uri = URI_TOTAL_PRICE /\ r.method = "GET"
            THEN Outcome(db, fs, [NoRes EXCEPT !.kind = "number", !.num = getTotalPrice(db)])
       ELSE IF uri = <<"/", "discount">>
            THEN Outcome(db, fs, ListBody(getDiscountList(db)))
       ELSE IF StartsWith(uri, <<"/", "category">>)
            THEN Outcome(db, fs, ListBody(getGoodsCategorytList(db,
                    IF StartsWith(uri, <<"/", "category", "/">>) THEN SubSeq(uri, 4, Len(uri)) ELSE uri)))
       ELSE IF uri = <<>> \/ uri = <<"/">>
            THEN IF r.method = "GET"
                 THEN Outcome(db, fs, [NoRes EXCEPT !.kind = list.kind, !.list = list.list,
                                         !.page = list.page, !.pages = list.pages,
                                         !.totalCount = list.totalCount])
                 ELSE IF r.method = "POST"
                      THEN IF drainJson(r).threw THEN Uncaught(db, fs)
                           ELSE createGoods(db, fs, drainJson(r).data, r.rnd)
                 ELSE Outcome(db, fs, [NoRes EXCEPT !.kind = "null"])
       ELSE IF r.method = "GET" THEN getGoods(db, fs, itemId)
       ELSE IF r.method = "PATCH"
            THEN IF drainJson(r).threw THEN Uncaught(db, fs)
                 ELSE updateGoods(db, fs, itemId, drainJson(r).data)
       ELSE IF r.method = "DELETE" THEN deleteGoods(db, fs, itemId)
       ELSE Outcome(db, fs, [NoRes EXCEPT !.kind = "null"])

\* the whole handler: the image route, OPTIONS, the prefix check, then the
\* dispatch
Handle(db, fs, r) ==
    IF IsImagePath(r.url) THEN ServeImage(db, fs, r)
    ELSE IF r.method = "OPTIONS" THEN Outcome(db, fs, NoRes)
    ELSE IF ~StartsWith(r.url, URI_GOODS) /\ ~StartsWith(r.url, URI_CATEGORIES)
            /\ ~StartsWith(r.url, URI_TOTAL_PRICE)
         THEN Outcome(db, fs, [NoRes EXCEPT !.status = 404, !.kind = "message", !.message = "Not Found"])
    ELSE Dispatch(db, fs, r)

\* line 476: a missing file is created as "[]", any other is left as it is
Startup(onDisk) == IF onDisk = "missing" THEN "json" ELSE onDisk

\* the function the request reaches has called
\* JSON.parse(readFileSync(DB_GOODS) || "[]") when this is its outcome on a
\* file that parses: a list, a page, a number, an item, {} or the 404 of a
\* lookup
ReadsFile(o) ==
    \/ o.res.kind \in {"list", "page", "number", "item", "object"}
    \/ o.res.kind = "message" /\ o.res.message = "Goods Not Found"

\* the handler on the file as it is (c), o being what it does on a file that
\* parses: readFileSync returns a Buffer, which is
\* truthy also when the file is empty, so "[]" never stands in for it and
\* JSON.parse throws a SyntaxError, which the catch of lines 573-576 answers.
\* createGoods has made the item, and written its image, before it reads.
OnFile(c, db, fs, r, o) ==
    IF c = "json" \/ ~ReadsFile(o) THEN o
    ELSE Outcome(db, IF r.method = "POST" THEN o.files ELSE fs,
                 [NoRes EXCEPT !.status = 500, !.kind = "message", !.message = "Server Error"])

HandleFile(c, db, fs, r) == OnFile(c, db, fs, r, Handle(db, fs, r))

----------------------------------------------------------------------------
(* The requests the model sends *)

MaxItems == 2

MaxFields == 1

\* the ids Math.random() and Date.now() can give: nothing keeps two calls of
\* createGoods from building the same string
Ids == {Str(<<"101">>), Str(<<"202">>)}

\* path segments that have the shape of an id; no item ever gets the last one
IdSegments == {<<"101">>, <<"202">>, <<"303">>}

\* the last path segment of an item request
Segments == IdSegments \cup {<<"discount">>}

Base64Jpeg == Str(<<"data:image", "/", "jpeg", ";", "base64,", "QUJD">>)

\* the values a request body gives each field (Undef: the field is absent)
FieldValues(f) ==
    CASE f = "title" -> {Undef, Str(<<" ", "a", " ">>), Str(<<" ">>)}
      [] f = "description" -> {Undef, Str(<<"d">>)}
      [] f = "price" -> {Undef, Num(2), Str(<<"3">>)}
      [] f = "discount" -> {Undef, Num(5)}
      [] f = "count" -> {Undef, Num(3)}
      [] f = "units" -> {Undef, Str(<<"k", "g">>)}
      [] f = "image" -> {Undef, Base64Jpeg}
      [] f = "category" -> {Undef, Str(<<"c">>), Str(<<" ">>)}
      [] OTHER -> {Undef, Str(<<"999">>)}

\* a body with every required field
FullBody ==
    [f \in Fields |->
        CASE f = "title" -> Str(<<" ", "a", " ">>)
          [] f = "description" -> Str(<<"d">>)
          [] f = "price" -> Num(2)
          [] f = "count" -> Num(3)
          [] f = "units" -> Str(<<"k", "g">>)
          [] f = "category" -> Str(<<"c">>)
          [] OTHER -> Undef]

\* the bodies that give the fields of S some value and agree with base elsewhere
Variants(base, S) ==
    {[f \in Fields |-> IF f \in S THEN c[f] ELSE base[f]] :
        c \in {d \in [S -> UNION {FieldValues(f) : f \in S}] : \A f \in S : d[f] \in FieldValues(f)}}

\* the bodies that differ from base in at most MaxFields fields
Bodies(base) ==
    UNION {Variants(base, S) : S \in {T \in SUBSET Fields : Cardinality(T) <= MaxFields}}

\* a body without discount and without a blank category (these are left to
\* SpecPatch and SpecValidate)
Plain(b) == b["discount"] = Undef /\ b["category"] # Str(<<" ">>)

PostBodies == {b \in Bodies(FullBody) : Plain(b)}

PatchBodies == {b \in Bodies(EmptyBody) : Plain(b)}

ItemUrl(seg) == URI_GOODS \o <<"/">> \o seg

----------------------------------------------------------------------------
(* The specification *)

NoRequest == Request("", <<>>, EmptyBody, Undef)

\* line 476: the file starts as "[]"
Init ==
    /\ goods = <<>>
    /\ files = {}
    /\ req = NoRequest
    /\ res = NoRes
    /\ content = "json"

\* the handler runs on request r, from its first line to res.end
Step(r) ==
    LET o == HandleFile(content, goods, files, r)
    IN /\ req = NoRequest
       /\ goods' = o.goods
       /\ files' = o.files
       /\ req' = r
       /\ res' = o.res
       /\ UNCHANGED content

PostGoods ==
    \E body \in PostBodies, id \in Ids :
        /\ Len(goods) < MaxItems
        /\ Step(Request("POST", URI_GOODS, body, id))

GetGoods == \E seg \in Segments : Step(Request("GET", ItemUrl(seg), EmptyBody, Undef))

PatchGoods ==
    \E seg \in Segments, body \in PatchBodies :
        Step(Request("PATCH", ItemUrl(seg), body, Undef))

DeleteGoods == \E seg \in Segments : Step(Request("DELETE", ItemUrl(seg), EmptyBody, Undef))

GetTotal == Step(Request("GET", URI_TOTAL_PRICE, EmptyBody, Undef))

\* the url of a list request: page and size are numbers, 0 for an absent parameter
ListUrl(page, size) ==
    LET p == IF page = 0 THEN <<>> ELSE <<<<"page", "=">> \o NatToStr(page)>>
        z == IF size = 0 THEN <<>> ELSE <<<<"size", "=">> \o NatToStr(size)>>
        pieces == p \o z
    IN IF pieces = <<>> THEN URI_GOODS
       ELSE IF Len(pieces) = 1 THEN URI_GOODS \o <<"?">> \o pieces[1]
       ELSE URI_GOODS \o <<"?">> \o pieces[1] \o <<"&">> \o pieces[2]

RECURSIVE JoinPieces(_)
\* the pieces of a query string with "&" between them
JoinPieces(pieces) ==
    IF Len(pieces) <= 1 THEN (IF pieces = <<>> THEN <<>> ELSE pieces[1])
    ELSE pieces[1] \o <<"&">> \o JoinPieces(Tail(pieces))

\* the url of a list request whose parameters are written out as strings
\* (<<>> for an absent parameter)
QueryUrl(page, size, search) ==
    LET p == IF page = <<>> THEN <<>> ELSE <<<<"page", "=">> \o page>>
        z == IF size = <<>> THEN <<>> ELSE <<<<"size", "=">> \o size>>
        q == IF search = <<>> THEN <<>> ELSE <<<<"search", "=">> \o search>>
        pieces == p \o z \o q
    IN IF pieces = <<>> THEN URI_GOODS ELSE URI_GOODS \o <<"?">> \o JoinPieces(pieces)

GetGoodsList ==
    \E page \in 0..MaxItems, size \in 0..1 :
        Step(Request("GET", ListUrl(page, size), EmptyBody, Undef))

\* the response is out and the server waits for the next request
Close ==
    /\ req # NoRequest
    /\ res.kind # "uncaught"
    /\ req' = NoRequest
    /\ res' = NoRes
    /\ UNCHANGED <<goods, files, content>>

\* a POST or a PATCH whose body is not JSON text
SendMalformed ==
    \E r \in {Request("POST", URI_GOODS, EmptyBody, Str(<<"101">>))}
             \cup {Request("PATCH", ItemUrl(seg), EmptyBody, Undef) : seg \in IdSegments} :
        Step(Malformed(r))

\* a POST or a PATCH whose body has a data URL as image and a blank title
SendInvalidImage ==
    \E r \in {Request("POST", URI_GOODS,
                      [FullBody EXCEPT !["title"] = Str(<<" ">>), !["image"] = Base64Jpeg],
                      Str(<<"101">>))}
             \cup {Request("PATCH", ItemUrl(seg),
                           [EmptyBody EXCEPT !["title"] = Str(<<" ">>), !["image"] = Base64Jpeg],
                           Undef) : seg \in IdSegments} :
        Step(r)

Methods == {"GET", "POST", "PATCH", "DELETE", "OPTIONS", "PUT"}

\* paths under the prefixes the handler knows
KnownUrls ==
    {URI_GOODS, URI_CATEGORIES, URI_TOTAL_PRICE, ItemUrl(<<"discount">>),
     ItemUrl(<<"category", "/", "c">>), <<"/", "image", "/", "101", ".", "jpg">>}

\* paths under no prefix the handler knows
UnknownUrls == {<<"/">>, <<"/api/discount">>, <<"/api/category", "/", "c">>, <<"/api/unknown">>}

\* any method on any of these paths, with an empty JSON object as the body
AnyMethod ==
    \E method \in Methods, url \in KnownUrls \cup UnknownUrls :
        Step(Request(method, url, EmptyBody, Undef))

Next ==
    \/ PostGoods
    \/ GetGoods
    \/ PatchGoods
    \/ DeleteGoods
    \/ GetTotal
    \/ GetGoodsList
    \/ SendMalformed
    \/ SendInvalidImage
    \/ AnyMethod
    \/ Close

Spec == Init /\ [][Next]_vars

----------------------------------------------------------------------------
(* The server started on a missing file and on a file without content *)

InitLoad ==
    /\ goods = <<>>
    /\ files = {}
    /\ req = NoRequest
    /\ res = NoRes
    /\ content \in {Startup("missing"), Startup("empty")}

SpecLoad == InitLoad /\ [][Next]_vars

----------------------------------------------------------------------------
(* The validator on every combination of field values: one item, any body *)

\* the values a body gives each field when the validator is exercised
ValidatedValues(f) ==
    CASE f = "title" -> {Undef, Str(<<" ">>), Str(<<" ", "a", " ">>), Num(7)}
      [] f = "description" -> {Undef, Str(<<>>), Str(<<"d">>)}
      [] f = "price" -> {Undef, Null, Num(2), Str(<<" ", "3">>), Str(<<"3", "x">>), Str(<<" ">>)}
      [] f = "count" -> {Undef, Num(0), Num(3), Str(<<"x">>)}
      [] f = "units" -> {Undef, Str(<<"k", "g">>), Str(<<" ", " ">>)}
      [] f = "category" -> {Undef, Str(<<>>), Str(<<"c">>), Str(<<" ">>)}
      [] OTHER -> {Undef}

ValidatedBodies ==
    {[f \in Fields |->
        CASE f = "title" -> t
          [] f = "description" -> d
          [] f = "price" -> p
          [] f = "count" -> n
          [] f = "units" -> u
          [] f = "category" -> c
          [] OTHER -> Undef] :
     t \in ValidatedValues("title"), d \in ValidatedValues("description"),
     p \in ValidatedValues("price"), n \in ValidatedValues("count"),
     u \in ValidatedValues("units"), c \in ValidatedValues("category")}

\* the bodies with at most MaxFields fields, each with one of these values
ValidatedPatches ==
    UNION {{[f \in Fields |-> IF f \in S THEN c[f] ELSE Undef] :
                c \in {d \in [S -> UNION {ValidatedValues(f) : f \in S}] :
                        \A f \in S : d[f] \in ValidatedValues(f)}} :
           S \in {T \in SUBSET DataFieldSet : Cardinality(T) <= MaxFields}}

PostAnyBody ==
    \E body \in ValidatedBodies :
        /\ goods = <<>>
        /\ Step(Request("POST", URI_GOODS, body, Str(<<"101">>)))

PatchAnyField ==
    \E seg \in IdSegments, body \in ValidatedPatches :
        Step(Request("PATCH", ItemUrl(seg), body, Undef))

NextValidate ==
    \/ PostAnyBody
    \/ PatchAnyField
    \/ Close

SpecValidate == Init /\ [][NextValidate]_vars

----------------------------------------------------------------------------
(* PATCH on a collection of two items, with every value of every field *)

\* the bodies of the POSTs that made the two items
StoredBodies ==
    {[FullBody EXCEPT !["price"] = p, !["category"] = c, !["image"] = i, !["discount"] = d] :
     p \in FieldValues("price") \ {Undef}, c \in FieldValues("category") \ {Undef},
     i \in FieldValues("image"), d \in FieldValues("discount")}

\* what createGoods stores for these bodies under id
CreatedWith(id) ==
    {[item |-> WithId(makeGoodsFromData(b, id).goods, id), files |-> makeGoodsFromData(b, id).files] :
     b \in StoredBodies}

InitPatch ==
    \E a \in CreatedWith(Str(<<"101">>)),
       b \in CreatedWith(Str(<<"101">>)) \cup CreatedWith(Str(<<"202">>)) :
        /\ goods = <<a.item, b.item>>
        /\ files = a.files \cup b.files
        /\ req = NoRequest
        /\ res = NoRes
        /\ content = "json"

PatchStored ==
    \E seg \in Segments, body \in Bodies(EmptyBody) :
        Step(Request("PATCH", ItemUrl(seg), body, Undef))

NextPatch ==
    \/ PatchStored
    \/ Close

SpecPatch == InitPatch /\ [][NextPatch]_vars

----------------------------------------------------------------------------
(* The list of a collection of up to MaxListed items *)

MaxListed == 25

MaxPage == 4

MaxSize == 10

\* the item POST of the full body creates under the k-th id
ListedItem(k) ==
    WithId(makeGoodsFromData(FullBody, Str(NatToStr(k))).goods, Str(NatToStr(k)))

InitList ==
    /\ goods \in {[k \in 1..n |-> ListedItem(k)] : n \in 0..MaxListed}
    /\ files = {}
    /\ req = NoRequest
    /\ res = NoRes
    /\ content = "json"

ListPage ==
    \E page \in 0..MaxPage, size \in 0..MaxSize :
        Step(Request("GET", ListUrl(page, size), EmptyBody, Undef))

\* a size as the query string carries it
SizeParam(size) == IF size = 0 THEN <<>> ELSE NatToStr(size)

\* page zero or negative
ListPageBelow ==
    \E page \in (-MaxPage)..0, size \in 0..MaxSize :
        Step(Request("GET", QueryUrl(ToStr(Num(page)), SizeParam(size), <<>>), EmptyBody, Undef))

\* page or size "all"
ListAll ==
    \E page \in {<<>>, <<"1">>, <<"all">>}, size \in {<<>>, <<"2">>, <<"all">>} :
        /\ <<"all">> \in {page, size}
        /\ Step(Request("GET", QueryUrl(page, size, <<>>), EmptyBody, Undef))

NextList ==
    \/ ListPage
    \/ ListPageBelow
    \/ ListAll
    \/ Close

SpecList == InitList /\ [][NextList]_vars

----------------------------------------------------------------------------
(* Search in a collection of up to MaxSearched items *)

MaxSearched == 2

\* the bodies of the POSTs that made the items
SearchedBodies ==
    {[FullBody EXCEPT !["title"] = Str(t), !["description"] = Str(d)] :
     t \in {<<"A", "b">>, <<"c">>}, d \in {<<"d">>, <<"b", "a">>}}

InitSearch ==
    /\ goods \in UNION {{[k \in 1..n |-> WithId(makeGoodsFromData(b[k], Str(NatToStr(k))).goods,
                                                 Str(NatToStr(k)))] :
                            b \in [1..n -> SearchedBodies]} : n \in 0..MaxSearched}
    /\ files = {}
    /\ req = NoRequest
    /\ res = NoRes
    /\ content = "json"

\* the search strings as the url carries them
Searches == {<<"a">>, <<"B">>, <<"a", "b">>, <<"%20", "b", "%20">>, <<"%20">>, <<"x">>, <<"D">>}

SearchSizes == {<<>>, <<"1">>, <<"all">>}

SearchPages == {<<>>, <<"2">>}

Search ==
    \E search \in Searches, size \in SearchSizes, page \in SearchPages :
        Step(Request("GET", QueryUrl(page, size, search), EmptyBody, Undef))

NextSearch ==
    \/ Search
    \/ Close

SpecSearch == InitSearch /\ [][NextSearch]_vars

----------------------------------------------------------------------------
(* The image of created and updated items *)

\* a data URL of the MIME subtype
Base64Of(subtype) == Str(<<"data:image", "/", subtype, ";", "base64,", "QUJD">>)

\* the values a body gives image (Undef: no image in the body)
ImageValues ==
    {Undef, Null, Num(5), Base64Of("jpeg"), Base64Of("png"), Base64Of("svg+xml"),
     Str(<<"image", "/", "x", ".", "png">>), Str(<<"http://x/y.png">>)}

ImageBodies(base) == {[base EXCEPT !["image"] = v] : v \in ImageValues}

PostImage ==
    \E body \in ImageBodies(FullBody), id \in Ids :
        /\ Len(goods) < MaxItems
        /\ FindIndex(goods, id) = 0
        /\ Step(Request("POST", URI_GOODS, body, id))

PatchImage ==
    \E seg \in IdSegments, body \in ImageBodies(EmptyBody) :
        Step(Request("PATCH", ItemUrl(seg), body, Undef))

NextImage ==
    \/ PostImage
    \/ PatchImage
    \/ Close

SpecImage == Init /\ [][NextImage]_vars

----------------------------------------------------------------------------
(* Requests in flight together: req is the sequence of the requests received,
   in the order of their arrival, and res the sequence of their responses *)

MaxInFlight == 2

\* the collection the requests meet
RaceStart ==
    <<WithId(makeGoodsFromData(FullBody, Str(<<"101">>)).goods, Str(<<"101">>)),
      WithId(makeGoodsFromData(FullBody, Str(<<"202">>)).goods, Str(<<"202">>))>>

InitRace ==
    /\ goods = RaceStart
    /\ files = {}
    /\ req = <<>>
    /\ res = <<>>
    /\ content = "json"

RaceRequests ==
    {Request("POST", URI_GOODS, FullBody, Str(<<"303">>)),
     Request("POST", URI_GOODS, [FullBody EXCEPT !["price"] = Str(<<"3">>)], Str(<<"505">>)),
     Request("PATCH", ItemUrl(<<"101">>), [EmptyBody EXCEPT !["price"] = Str(<<"3">>)], Undef),
     Request("PATCH", ItemUrl(<<"101">>), [EmptyBody EXCEPT !["count"] = Num(7)], Undef),
     Request("PATCH", ItemUrl(<<"202">>), [EmptyBody EXCEPT !["title"] = Str(<<"b">>)], Undef),
     Request("DELETE", ItemUrl(<<"101">>), EmptyBody, Undef),
     Request("DELETE", ItemUrl(<<"202">>), EmptyBody, Undef)}

\* the requests whose handler awaits drainJson before it calls the function
\* that reads and writes the file (lines 553 and 563)
Drains(r) == r.method \in {"POST", "PATCH"}

\* the positions of the requests whose handler waits for the body
Draining == {i \in 1..Len(req) : req[i].pc = "drain"}

\* the positions of the requests that are answered
Answered == {i \in 1..Len(req) : req[i].pc = "done"}

\* the collection the file is when the request arrives, for a handler that
\* read the file before it awaits
LoadedOnArrival(seen, now) == seen

\* the collection createGoods and updateGoods work on: they are called when
\* drainJson has resolved and read the file then (readFileSync), change the
\* array and write it (writeFileSync) without any await in between
Loaded(seen, now) == now

\* the handler runs from its first line to the await of drainJson; a handler
\* that does not await runs to res.end
Arrive ==
    \E r \in RaceRequests :
        LET o == Handle(goods, files, r)
        IN /\ Len(req) < MaxInFlight
           /\ IF Drains(r)
              THEN /\ req' = Append(req, [r |-> r, pc |-> "drain", seen |-> goods,
                                          over |-> Draining, at |-> 0])
                   /\ res' = Append(res, NoRes)
                   /\ UNCHANGED <<goods, files>>
              ELSE /\ req' = Append(req, [r |-> r, pc |-> "done", seen |-> goods,
                                          over |-> Draining, at |-> Cardinality(Answered) + 1])
                   /\ res' = Append(res, o.res)
                   /\ goods' = o.goods
                   /\ files' = o.files
           /\ UNCHANGED content

\* the "end" event of a request: drainJson resolves and the handler runs on,
\* through createGoods or updateGoods, to res.end
Drained ==
    \E i \in Draining :
        LET o == Handle(Loaded(req[i].seen, goods), files, req[i].r)
        IN /\ req' = [req EXCEPT ![i].pc = "done", ![i].at = Cardinality(Answered) + 1]
           /\ res' = [res EXCEPT ![i] = o.res]
           /\ goods' = o.goods
           /\ files' = o.files
           /\ UNCHANGED content

NextRace ==
    \/ Arrive
    \/ Drained

SpecRace == InitRace /\ [][NextRace]_vars

----------------------------------------------------------------------------
(* Every dispatch path, from the request to res.end: req is the sequence of
   the requests received and res the sequence of their responses; ends counts
   the calls of res.end for a request *)

InitAnswer ==
    /\ goods = <<WithId(makeGoodsFromData(FullBody, Str(<<"101">>)).goods, Str(<<"101">>))>>
    /\ files = {<<"image", "/", "101", ".", "jpg">>}
    /\ req = <<>>
    /\ res = <<>>
    /\ content \in {"json", "empty"}

AnswerRequests ==
    {Request("GET", <<"/", "image", "/", "101", ".", "jpg">>, EmptyBody, Undef),
     Request("GET", <<"/", "image", "/", "303", ".", "jpg">>, EmptyBody, Undef),
     Request("OPTIONS", URI_GOODS, EmptyBody, Undef),
     Request("GET", <<"/api/unknown">>, EmptyBody, Undef),
     Request("GET", URI_GOODS, EmptyBody, Undef),
     Request("GET", URI_TOTAL_PRICE, EmptyBody, Undef),
     Request("GET", ItemUrl(<<"303">>), EmptyBody, Undef),
     Request("PUT", URI_GOODS, EmptyBody, Undef),
     Request("POST", URI_GOODS, FullBody, Str(<<"202">>)),
     Request("POST", URI_GOODS, EmptyBody, Str(<<"202">>)),
     Malformed(Request("POST", URI_GOODS, EmptyBody, Str(<<"202">>))),
     Request("PATCH", ItemUrl(<<"101">>), [EmptyBody EXCEPT !["price"] = Str(<<"3">>)], Undef),
     Malformed(Request("PATCH", ItemUrl(<<"303">>), EmptyBody, Undef)),
     Request("DELETE", ItemUrl(<<"101">>), EmptyBody, Undef)}

\* no exception has ended the process
Alive == \A i \in 1..Len(req) : req[i].pc # "uncaught"

\* where the handler of r stands when it returns to the event loop for the
\* first time: in readFile (image route), in await drainJson(req) (line 553 or
\* 563: it is there that a body that is not JSON text goes uncaught), or past
\* res.end
FirstPc(r) ==
    IF IsImagePath(r.url) THEN "read"
    ELSE IF Handle(<<>>, {}, Malformed(r)).res.kind = "uncaught" THEN "drain"
    ELSE "done"

\* the request and the response once the handler has run to o
Entry(r, o) ==
    [r |-> r,
     pc |-> IF o.res.kind = "uncaught" THEN "uncaught" ELSE "done",
     ends |-> IF o.res.kind = "uncaught" THEN 0 ELSE 1]

\* the handler of a new request r runs until it first waits; o is where it
\* gets to when nothing makes it wait
Received(r, o) ==
    /\ IF FirstPc(r) = "done"
       THEN /\ req' = Append(req, Entry(r, o))
            /\ res' = Append(res, o.res)
            /\ goods' = o.goods
            /\ files' = o.files
       ELSE /\ req' = Append(req, [r |-> r, pc |-> FirstPc(r), ends |-> 0])
            /\ res' = Append(res, NoRes)
            /\ UNCHANGED <<goods, files>>
    /\ UNCHANGED content

\* the handler is called with a new request
Receive ==
    \E r \in AnswerRequests :
        /\ Alive
        /\ Len(req) < MaxInFlight
        /\ Received(r, HandleFile(content, goods, files, r))

\* the handler of the i-th request runs on from where it waited to o: to
\* res.end, or to the exception that ends the process
Resumed(i, o) ==
    /\ req' = [req EXCEPT ![i] = Entry(req[i].r, o)]
    /\ res' = [res EXCEPT ![i] = o.res]
    /\ goods' = o.goods
    /\ files' = o.files
    /\ UNCHANGED content

\* the "end" event of a request whose handler awaits drainJson
EndOfBody ==
    \E i \in 1..Len(req) :
        /\ Alive
        /\ req[i].pc = "drain"
        /\ Resumed(i, HandleFile(content, goods, files, req[i].r))

\* the callback of readFile on the image route (lines 482-484)
FileRead ==
    \E i \in 1..Len(req) :
        /\ Alive
        /\ req[i].pc = "read"
        /\ Resumed(i, HandleFile(content, goods, files, req[i].r))

NextAnswer ==
    \/ Receive
    \/ EndOfBody
    \/ FileRead

\* the event loop delivers the end of every body and every readFile callback
SpecAnswer ==
    InitAnswer /\ [][NextAnswer]_vars /\ WF_vars(EndOfBody) /\ WF_vars(FileRead)

----------------------------------------------------------------------------
(* What the claims speak of *)

\* the request the handler ran last, by method and url
Ran(method, url) == req.method = method /\ req.url = url

IdsOf(db) == [i \in 1..Len(db) |-> db[i]["id"]]

HasId(db, id) == \E i \in 1..Len(db) : db[i]["id"] = id

\* what GET /api/goods/{id} answers in the current state
Fetched(db, id) == getGoods(db, {}, id).res

\* a string that is not empty after trimming
NonBlank(v) == v.t = "str" /\ \E i \in 1..Len(v.s) : v.s[i] # " "

\* a number, or a string that reads as one
Numeric(v) ==
    \/ v.t = "num"
    \/ /\ NonBlank(v)
       /\ \A i \in 1..Len(v.s) : v.s[i] = " " \/ IsDigit(v.s[i])
       /\ \A i, j \in 1..Len(v.s) :
            (i < j /\ IsDigit(v.s[i]) /\ IsDigit(v.s[j])) =>
                \A k \in i..j : IsDigit(v.s[k])

(* C1: a POST answered 201 carries Location /api/goods/{id} of the returned
   record, and GET /api/goods/{id} then returns that record. *)
C1_CreatedIsFetched ==
    (req.method = "POST" /\ res.status = 201) =>
        /\ res.location = URI_GOODS \o <<"/">> \o ToStr(res.item["id"])
        /\ Fetched(goods, res.item["id"]).status = 200
        /\ Fetched(goods, res.item["id"]).item = res.item

(* C2: no two items of the stored collection have the same id. *)
C2_UniqueIds ==
    \A i, j \in 1..Len(goods) : i # j => goods[i]["id"] # goods[j]["id"]

(* C3: every stored item has title, description, units and category that
   are non-empty after trimming, and price and count that read as finite
   numbers. *)
C3_StoredItemsValid ==
    \A i \in 1..Len(goods) :
        /\ \A f \in {"title", "description", "units", "category"} : NonBlank(goods[i][f])
        /\ \A f \in {"price", "count"} : Numeric(goods[i][f])

\* the value a field of a body is stored as, per the validator's rules: the
\* three text fields trimmed, a data URL replaced by the path of its file, any
\* other image that is no local path by the placeholder, a falsy discount by 0
Normalised(f, v, id) ==
    CASE f \in {"title", "description", "units"} -> Str(Trim(ToStr(v)))
      [] f = "discount" -> IF Truthy(v) THEN v ELSE Num(0)
      [] f = "image" ->
            IF v = Base64Jpeg THEN Str(<<"image", "/">> \o id.s \o <<".", "jpg">>)
            ELSE IF v.t = "str" /\ Len(v.s) >= 2 /\ v.s[1] = "image" /\ v.s[2] = "/" THEN v
            ELSE NotImage
      [] OTHER -> v

\* the db with position k removed
Without(db, k) == [i \in 1..(Len(db) - 1) |-> IF i < k THEN db[i] ELSE db[i + 1]]

\* a PATCH of the stored id of segment seg was answered 200 in this step
PatchedOk(seg) ==
    /\ req'.method = "PATCH"
    /\ req'.url = ItemUrl(seg)
    /\ HasId(goods, Str(seg))
    /\ res'.status = 200

\* the step left every item but the first one with this id as it was
OthersUnchanged(id) ==
    /\ Len(goods') = Len(goods)
    /\ \A i \in 1..Len(goods) : i # FindIndex(goods, id) => goods'[i] = goods[i]

(* C5 as claimed: after a PATCH with valid values for a subset of the fields,
   the item fetched has the payload's values in exactly those fields, every
   other field as before, and all other items are unchanged. *)
C5_PatchStoresPayloadValues ==
    [][\A seg \in IdSegments :
        PatchedOk(seg) =>
            LET id == Str(seg)
                old == goods[FindIndex(goods, id)]
                new == Fetched(goods', id).item
            IN /\ \A f \in DataFieldSet :
                    new[f] = IF req'.body[f] # Undef THEN req'.body[f] ELSE old[f]
               /\ OthersUnchanged(id)]_vars

(* C5 amended: after a PATCH answered 200, the item fetched has, in exactly
   the payload's fields (other than id), the payload's values as the validator
   normalises them, every other field as before, and all other items are
   unchanged. *)
C5_PatchStoresNormalisedValues ==
    [][\A seg \in IdSegments :
        PatchedOk(seg) =>
            LET id == Str(seg)
                old == goods[FindIndex(goods, id)]
                new == Fetched(goods', id).item
            IN /\ Fetched(goods', id).status = 200
               /\ \A f \in DataFieldSet :
                    new[f] = IF req'.body[f] # Undef
                             THEN Normalised(f, req'.body[f], id) ELSE old[f]
               /\ OthersUnchanged(id)]_vars

\* a PATCH changed the discount of an item that has an image file, beside
\* another item
C5_Patched ==
    /\ req.method = "PATCH"
    /\ res.status = 200
    /\ res.kind = "item"
    /\ req.body["discount"] # Undef
    /\ req.body["image"] = Undef
    /\ res.item["discount"] = req.body["discount"]
    /\ res.item["image"] # NotImage
    /\ Len(goods) = 2
    /\ goods[1]["id"] # goods[2]["id"]

(* C6: a PATCH never changes the id of a stored item, whatever id its
   payload carries: the ids stay where they are and the item is still found
   by GET under its id. *)
C6_IdNeverChanges ==
    [][\A seg \in Segments :
        (req'.method = "PATCH" /\ req'.url = ItemUrl(seg)) =>
            /\ IdsOf(goods') = IdsOf(goods)
            /\ HasId(goods, Str(seg)) =>
                /\ Fetched(goods', Str(seg)).status = 200
                /\ Fetched(goods', Str(seg)).item["id"] = Str(seg)]_vars

\* a PATCH whose payload carries another id was answered with the item
C6_PatchedWithId ==
    /\ req.method = "PATCH"
    /\ req.body["id"] # Undef
    /\ res.status = 200
    /\ res.kind = "item"
    /\ res.item["id"] # req.body["id"]
    /\ HasId(goods, res.item["id"])

(* C7: PATCH /api/goods/{id} for an id-shaped segment no stored item has is
   answered 404 "Goods Not Found", whether or not the payload would pass
   validation, and leaves the collection and the image files unchanged. *)
C7_PatchUnknownId ==
    [][\A seg \in IdSegments :
        (req'.method = "PATCH" /\ req'.url = ItemUrl(seg) /\ ~HasId(goods, Str(seg))) =>
            /\ res'.status = 404
            /\ res'.kind = "message"
            /\ res'.message = "Goods Not Found"
            /\ goods' = goods
            /\ files' = files]_vars

\* a PATCH of an unknown id with a blank title, which no validation passes,
\* was answered 404 while the collection holds another item
C7_UnknownIdBadPayload ==
    /\ req.method = "PATCH"
    /\ \E seg \in IdSegments : req.url = ItemUrl(seg) /\ ~HasId(goods, Str(seg))
    /\ req.body["title"] = Str(<<" ">>)
    /\ goods # <<>>
    /\ res.status = 404

(* C8: DELETE /api/goods/{x} is answered 404 for every segment x that is not
   the id of a stored item; a DELETE of a stored id is answered {}, after it
   GET of that id is answered 404 and every other item is still stored. *)
C8_Delete ==
    [][\A seg \in Segments :
        (req'.method = "DELETE" /\ req'.url = ItemUrl(seg)) =>
            IF ~HasId(goods, Str(seg)) THEN res'.status = 404
            ELSE /\ res'.kind = "object"
                 /\ Fetched(goods', Str(seg)).status = 404
                 /\ goods' = Without(goods, FindIndex(goods, Str(seg)))]_vars

RECURSIVE TotalOf(_)
\* the sum of price * count over the items, as numbers
TotalOf(db) ==
    IF db = <<>> THEN 0
    ELSE TotalOf(SubSeq(db, 1, Len(db) - 1))
         + ParseFloat(db[Len(db)]["price"]).v * ParseFloat(db[Len(db)]["count"]).v

(* C9: GET /api/total returns the sum over the stored items of price*count,
   0 for the empty collection. *)
C9_Total ==
    Ran("GET", URI_TOTAL_PRICE) =>
        /\ res.status = 200
        /\ res.kind = "number"
        /\ res.num = Fin(TotalOf(goods))
        /\ goods = <<>> => res.num = Fin(0)

\* the total of two items of different prices was asked
C9_TotalOfTwo ==
    /\ Ran("GET", URI_TOTAL_PRICE)
    /\ Len(goods) = 2
    /\ goods[1]["price"] # goods[2]["price"]
    /\ res.num = Fin(15)

----------------------------------------------------------------------------
(* Validation errors *)

\* a text field that counts as missing: absent, or empty after trimming
Blank(v) ==
    \/ v \in {Undef, Null, Num(0)}
    \/ v.t = "str" /\ \A i \in 1..Len(v.s) : v.s[i] = " "

\* field f of the validated data fails
Fails(data, f) ==
    CASE f \in {"title", "description", "units"} -> Blank(data[f])
      [] f \in {"price", "count"} -> ~Numeric(data[f])
      [] OTHER -> data[f] \in {Undef, Null, Num(0), Str(<<>>)}

CheckOrder == <<"title", "description", "price", "count", "units", "category">>

\* one entry for each failing field, in the fixed order
ExpectedErrors(data) ==
    LET Failing(f) == Fails(data, f)
        failing == SelectSeq(CheckOrder, Failing)
    IN [i \in 1..Len(failing) |-> [field |-> failing[i], message |-> ErrorMessage(failing[i])]]

\* the data a request has validated: the body of a POST, the stored item
\* overlaid with the body of a PATCH
Validated ==
    IF req.method = "POST" THEN req.body
    ELSE Spread(goods[FindIndex(goods, Str(Substring1(UriAndQuery(req.url).uri)))], req.body)

(* C4: a create or update whose data fails validation is answered 422 with
   exactly one {field, message} entry for each failing field and none for a
   passing field, in the order title, description, price, count, units,
   category; a create with a failing field is always answered so. *)
C4_Errors ==
    /\ res.status = 422 =>
        /\ res.kind = "errors"
        /\ res.errors # <<>>
        /\ res.errors = ExpectedErrors(Validated)
    /\ (req.method = "POST" /\ ExpectedErrors(req.body) # <<>>) => res.status = 422

\* a create whose body lacks only title and price was answered with exactly
\* the entries title and price
C4_TitleAndPriceMissing ==
    /\ req.method = "POST"
    /\ req.body = [FullBody EXCEPT !["title"] = Undef, !["price"] = Undef]
    /\ res.status = 422
    /\ [i \in 1..Len(res.errors) |-> res.errors[i].field] = <<"title", "price">>

----------------------------------------------------------------------------
(* Pagination *)

\* the least m with m * size >= n
PagesFor(n, size) == CHOOSE m \in 0..n : m * size >= n /\ \A k \in 0..(m - 1) : k * size < n

(* C10: a list request without search, page p >= 1 (1 when absent) and size
   s >= 1 (10 when absent), over n items returns the items at positions
   (p-1)*s+1 .. min(p*s, n) in stored order, page = p, pages = ceil(n/s) and
   totalCount = n. *)
C10_Page ==
    \A page \in 0..MaxPage, size \in 0..MaxSize :
        Ran("GET", ListUrl(page, size)) =>
            LET p == IF page = 0 THEN 1 ELSE page
                s == IF size = 0 THEN 10 ELSE size
                n == Len(goods)
                first == (p - 1) * s + 1
                last == Min(p * s, n)
            IN /\ res.status = 200
               /\ res.kind = "page"
               /\ Len(res.list) = Max(0, last - first + 1)
               /\ \A k \in 1..Len(res.list) : res.list[k] = goods[first + k - 1]
               /\ res.page = Fin(p)
               /\ res.pages = PagesFor(n, s)
               /\ res.totalCount = n

\* page 3 of 25 items by 10: 5 items, 3 pages
C10_ThirdPage ==
    /\ Ran("GET", ListUrl(3, 10))
    /\ Len(goods) = 25
    /\ Len(res.list) = 5
    /\ res.list[1] = goods[21]
    /\ res.pages = 3

\* the list request that carried page = p (a number written out) and size
ListedPage(p, size) == Ran("GET", QueryUrl(ToStr(Num(p)), SizeParam(size), <<>>))

(* C11: a list request whose page is an integer outside 1..pages (above the
   last page, zero or negative) is answered 200 with an empty slice. *)
C11_OutOfRangeEmpty ==
    \A p \in (-MaxPage)..MaxPage, size \in 0..MaxSize :
        (ListedPage(p, size) /\ (p < 1 \/ p > res.pages)) =>
            /\ res.status = 200
            /\ res.kind = "page"
            /\ res.list = <<>>

(* C12: a list request with size "all", and one with page "all", is answered
   with the whole stored collection. *)
C12_All ==
    \A page \in {<<>>, <<"1">>, <<"all">>}, size \in {<<>>, <<"2">>, <<"all">>} :
        (Ran("GET", QueryUrl(page, size, <<>>)) /\ <<"all">> \in {page, size}) =>
            /\ res.status = 200
            /\ res.list = goods

----------------------------------------------------------------------------
(* Search *)

\* the two characters are the same letter, whatever their case
SameLetter(a, b) == LowerCase(a) = LowerCase(b)

\* the string q has p as a substring, case ignored
ContainsNoCase(q, p) ==
    \E i \in 0..(Len(q) - Len(p)) : \A j \in 1..Len(p) : SameLetter(q[i + j], p[j])

\* the title or the description of the item contains p
Mentions(item, p) ==
    ContainsNoCase(item["title"].s, p) \/ ContainsNoCase(item["description"].s, p)

(* C13 as claimed: every item a list request with a non-empty search
   parameter returns has the search string in its title or description,
   case ignored, whatever the other parameters are. *)
C13_OnlyMatches ==
    \A search \in Searches, size \in SearchSizes, page \in SearchPages :
        Ran("GET", QueryUrl(page, size, search)) =>
            \A k \in 1..Len(res.list) : Mentions(res.list[k], decodeURI(search))

(* C13 amended: when size is not "all", every item a list request with a
   non-empty search parameter returns has the search string, stripped of
   leading and trailing white space, in its title or description, case
   ignored; with size "all" the whole collection is returned. *)
C13_OnlyTrimmedMatches ==
    \A search \in Searches, size \in SearchSizes, page \in SearchPages :
        Ran("GET", QueryUrl(page, size, search)) =>
            /\ res.status = 200
            /\ IF size = <<"all">> THEN res.list = goods
               ELSE \A k \in 1..Len(res.list) : Mentions(res.list[k], Trim(decodeURI(search)))

\* search=B with page=2 returns the item titled "Ab" and not the one titled "c"
C13_FoundOne ==
    /\ Ran("GET", QueryUrl(<<"2">>, <<>>, <<"B">>))
    /\ Len(goods) = 2
    /\ goods[1]["title"] = Str(<<"c">>) /\ goods[1]["description"] = Str(<<"d">>)
    /\ res.list = <<goods[2]>>

----------------------------------------------------------------------------
(* Errors and routes *)

(* C14: a POST or PATCH whose body is not valid JSON is answered 500
   {message: "Server Error"} and the stored collection is left unchanged. *)
C14_MalformedJson ==
    [][(req'.method \in {"POST", "PATCH"} /\ req # req' /\ ~req'.valid) =>
            /\ res'.status = 500
            /\ res'.kind = "message"
            /\ res'.message = "Server Error"
            /\ goods' = goods]_vars

(* C15: a request whose path starts with none of the recognized prefixes is
   answered 404 {message: "Not Found"} whatever its method, OPTIONS included. *)
C15_UnknownPrefix ==
    \A url \in UnknownUrls :
        req.url = url =>
            /\ res.status = 404
            /\ res.kind = "message"
            /\ res.message = "Not Found"

(* C16: GET /api/discount is answered with the list of the goods that have a
   discount and GET /api/category/{category} with the goods of that category. *)
C16_ReadmeRoutes ==
    /\ Ran("GET", <<"/api/discount">>) =>
            /\ res.status = 200
            /\ res.kind = "list"
            /\ res.list = getDiscountList(goods)
    /\ Ran("GET", <<"/api/category", "/", "c">>) =>
            /\ res.status = 200
            /\ res.kind = "list"
            /\ res.list = getGoodsCategorytList(goods, <<"c">>)

\* the body has valid values for title, description, price, count and units
\* and no other field
ReadmeBody(data) ==
    /\ \A f \in {"title", "description", "units"} : NonBlank(data[f])
    /\ \A f \in {"price", "count"} : Numeric(data[f])
    /\ \A f \in Fields \ {"title", "description", "units", "price", "count"} : data[f] = Undef

(* C17: a POST /api/goods whose body has valid values for exactly the fields
   title, description, price, count and units is answered 201 and the item
   is stored. *)
C17_ReadmeBodyCreates ==
    (Ran("POST", URI_GOODS) /\ req.valid /\ ReadmeBody(req.body)) =>
        /\ res.status = 201
        /\ res.kind = "item"
        /\ goods = <<res.item>>

----------------------------------------------------------------------------
(* Requests in flight together *)

\* the request that was answered k-th
NthAnswered(k) == CHOOSE i \in Answered : req[i].at = k

RECURSIVE Serial(_)
\* what handling the requests of the sequence one after the other, each to
\* its response before the next is received, leaves of RaceStart
Serial(rs) ==
    IF rs = <<>> THEN Outcome(RaceStart, {}, NoRes)
    ELSE Handle(Serial(SubSeq(rs, 1, Len(rs) - 1)).goods,
                Serial(SubSeq(rs, 1, Len(rs) - 1)).files, rs[Len(rs)])

\* the first k requests in the order they were answered
AnsweredFirst(k) == [j \in 1..k |-> req[NthAnswered(j)].r]

Success(r) == r.status \in {200, 201} /\ r.kind \in {"item", "object"}

\* two requests, each received before the other was answered, are both
\* answered with success
BothSucceeded ==
    /\ Len(req) = 2
    /\ Answered = {1, 2}
    /\ 1 \in req[2].over
    /\ Success(res[1]) /\ Success(res[2])

(* C18 as claimed, for the interleaving it describes: when two mutating
   requests, each received before the other is answered, are both answered
   with success, the stored collection lacks the change of one of them: it
   is not what the two requests leave in either order. *)
C18_LostUpdate ==
    BothSucceeded =>
        /\ goods # Serial(<<req[1].r, req[2].r>>).goods
        /\ goods # Serial(<<req[2].r, req[1].r>>).goods

(* C18 amended: the requests in flight together never lose an update: the
   stored collection, the image files and every response are what handling
   the answered requests one after the other, in the order they were
   answered, gives. *)
C18_NoLostUpdate ==
    /\ goods = Serial(AnsweredFirst(Cardinality(Answered))).goods
    /\ files = Serial(AnsweredFirst(Cardinality(Answered))).files
    /\ \A k \in 1..Cardinality(Answered) : res[NthAnswered(k)] = Serial(AnsweredFirst(k)).res

\* two creates in flight together, the second received answered first: both
\* items are stored
C18_BothCreatesStored ==
    /\ BothSucceeded
    /\ req[1].r.method = "POST" /\ req[2].r.method = "POST"
    /\ req[2].at = 1
    /\ Len(goods) = Len(RaceStart) + 2
    /\ HasId(goods, Str(<<"303">>)) /\ HasId(goods, Str(<<"505">>))

----------------------------------------------------------------------------
(* The file without content *)

(* C19: when the backing file was missing or had no content, every request
   is answered, and changes the collection, as on the empty collection. *)
C19_EmptyFileIsEmptyCollection ==
    [][(content = "empty" /\ req = NoRequest /\ req' # NoRequest) =>
            /\ res' = Handle(<<>>, files, req').res
            /\ goods' = Handle(<<>>, files, req').goods]_vars

----------------------------------------------------------------------------
(* Images *)

\* the string is a data URL of an image
IsDataUrl(v) == v.t = "str" /\ Len(v.s) >= 3 /\ v.s[1] = "data:image" /\ v.s[2] = "/"

\* the string is a path under image/
IsLocalPath(v) == v.t = "str" /\ Len(v.s) >= 2 /\ v.s[1] = "image" /\ v.s[2] = "/"

\* the extension of a MIME subtype
ExtOf(subtype) ==
    CASE subtype = "jpeg" -> "jpg"
      [] subtype = "svg+xml" -> "svg"
      [] OTHER -> subtype

\* the image an item of this id is stored with when v is the image given
ExpectedImage(v, id) ==
    IF IsDataUrl(v) THEN Str(<<"image", "/">> \o id.s \o <<".", ExtOf(v.s[3])>>)
    ELSE IF IsLocalPath(v) THEN v
    ELSE Str(<<"image", "/", "notimage", ".", "jpg">>)

(* C20: after a create answered 201 or an update answered 200 the stored
   image of the item is image/{its id}.{ext} when the payload's image is a
   data URL (ext from the MIME subtype, jpeg -> jpg, svg+xml -> svg), the
   payload's image, or the previous one when the payload has none, when that
   starts with image/, and image/notimage.jpg otherwise; every stored image
   is a path under image/. *)
C20_StoredImage ==
    [][/\ (req'.method = "POST" /\ req # req' /\ res'.status = 201) =>
            /\ goods' = Append(goods, res'.item)
            /\ res'.item["image"] = ExpectedImage(req'.body["image"], res'.item["id"])
       /\ \A seg \in IdSegments :
            (req'.method = "PATCH" /\ req # req' /\ req'.url = ItemUrl(seg) /\ res'.status = 200) =>
                LET k == FindIndex(goods, Str(seg))
                    given == IF req'.body["image"] = Undef THEN goods[k]["image"]
                             ELSE req'.body["image"]
                IN /\ k # 0
                   /\ goods'[k] = res'.item
                   /\ goods'[k]["id"] = Str(seg)
                   /\ goods'[k]["image"] = ExpectedImage(given, Str(seg))
       /\ \A i \in 1..Len(goods') : IsLocalPath(goods'[i]["image"])]_vars

\* the second item was given an SVG data URL by a PATCH while the first item
\* keeps its PNG
C20_SvgPatched ==
    /\ Ran("PATCH", ItemUrl(<<"202">>))
    /\ req.body["image"] = Base64Of("svg+xml")
    /\ res.status = 200
    /\ Len(goods) = 2
    /\ goods[1]["image"] = Str(<<"image", "/", "101", ".", "png">>)
    /\ goods[2]["image"] = Str(<<"image", "/", "202", ".", "svg">>)
    /\ <<"image", "/", "202", ".", "svg">> \in files

----------------------------------------------------------------------------
(* What changes the collection *)

(* C21: the stored collection changes only in the handling of a POST, PATCH
   or DELETE that is answered with success; a request answered 404 or 422, a
   GET, an OPTIONS and a request whose method its route does not handle
   leave it as it was, and a create or update answered 422 writes no image
   file. *)
C21_OnlySuccessChanges ==
    [][/\ goods' # goods => (req'.method \in {"POST", "PATCH", "DELETE"} /\ Success(res'))
       /\ (req' # NoRequest /\ res'.status \in {404, 422}) => goods' = goods
       /\ req'.method \in {"GET", "OPTIONS"} => goods' = goods
       /\ (req' # NoRequest /\ res'.kind = "null") => goods' = goods
       /\ (req'.method \in {"POST", "PATCH"} /\ res'.status = 422) => files' = files]_vars

\* a PATCH of a stored item with a data URL as image and a blank title was
\* answered 422: the item is as it was and its image file is not written
C21_InvalidImageNotWritten ==
    /\ Ran("PATCH", ItemUrl(<<"101">>))
    /\ req.body["image"] = Base64Jpeg
    /\ res.status = 422
    /\ HasId(goods, Str(<<"101">>))
    /\ goods[1]["image"] = NotImage
    /\ files = {}

----------------------------------------------------------------------------
(* The page of a search *)

\* the stored items that have p in their title or description, in stored order
Matching(p) == LET Has(item) == Mentions(item, p) IN SelectSeq(goods, Has)

\* the size a list request asks for, 10 when it names none
AskedSize(size) == IF size = <<>> THEN 10 ELSE DigitsVal(size)

(* C23: a list request with a non-empty search parameter and a size other
   than "all" is answered with page 1 of the matching items, whatever its
   page parameter: the first size matches in stored order, page = 1, and
   pages and totalCount counted over the matches. *)
C23_SearchIsPageOne ==
    \A search \in Searches, size \in SearchSizes \ {<<"all">>}, page \in SearchPages :
        Ran("GET", QueryUrl(page, size, search)) =>
            LET found == Matching(Trim(decodeURI(search)))
            IN /\ res.status = 200
               /\ res.kind = "page"
               /\ res.page = Fin(1)
               /\ res.totalCount = Len(found)
               /\ res.pages = PagesFor(Len(found), AskedSize(size))
               /\ res.list = SubSeq(found, 1, Min(AskedSize(size), Len(found)))

\* search=a&size=1&page=2 on two matching items: the first match, page 1 of 2
C23_SecondPageIsFirst ==
    /\ Ran("GET", QueryUrl(<<"2">>, <<"1">>, <<"a">>))
    /\ Len(goods) = 2
    /\ res.list = <<goods[1]>>
    /\ res.page = Fin(1)
    /\ res.pages = 2
    /\ res.totalCount = 2

----------------------------------------------------------------------------
(* Every request is answered *)

\* no handler is waiting for the end of a body or for readFile
Quiet == \A i \in 1..Len(req) : req[i].pc \notin {"drain", "read"}

(* C22: every request the server receives is answered, and its response is
   ended once and only once: no response is ever ended twice, and once no
   handler is left waiting for an event, the response of every request
   received has been ended. *)
C22_AnsweredOnce ==
    /\ \A i \in 1..Len(req) : req[i].ends <= 1
    /\ Quiet => \A i \in 1..Len(req) : req[i].ends = 1

====
